---- MODULE Spec2Model ----
(***************************************************************************)
(* default-test-rs: the DefaultTest trait (src/lib.rs), its built-in       *)
(* implementations, and the User example (examples/hello.rs).              *)
(*                                                                         *)
(* The crate keeps no state of its own.  The state modelled here is the    *)
(* history of a test program that uses the crate: every call of            *)
(* T::default_test(), every struct literal built with the update syntax    *)
(* `User { <fields>, ..User::default_test() }`, and every run of the       *)
(* example's main(), each recorded with what it returned.                  *)
(*                                                                         *)
(* Values.  bool is a BOOLEAN; char is its Unicode scalar value; every     *)
(* integer is an Int; a float is its IEEE-754 fields; a &str is a slice    *)
(* (bytes, len) of UTF-8 bytes; a String is a buffer (bytes, len, cap).    *)
(***************************************************************************)
EXTENDS Integers, Sequences, FiniteSets, TLC

VARIABLES log

vars == <<log>>

\* Longest history explored.
MaxLog == 3

----------------------------------------------------------------------------
(* Types *)

Prim(n) == [wrap |-> "none", base |-> n]
OptionOf(n) == [wrap |-> "Option", base |-> n]
ResultOf(n) == [wrap |-> "Result", base |-> n]

IntNames == {"usize", "isize", "u8", "i8", "u16", "i16", "u32", "i32",
             "u64", "i64", "u128", "i128"}
FloatNames == {"f32", "f64"}
StringNames == {"&str", "String"}

\* The primitive types a test program may name; "()" has no impl.
PrimNames == {"bool", "char", "()"} \cup StringNames \cup IntNames \cup FloatNames

\* Every type a call site may ask a placeholder of: T, Option<T>, Result<T, E>.
AllTypes == {Prim(n) : n \in PrimNames}
            \cup {OptionOf(n) : n \in PrimNames}
            \cup {ResultOf(n) : n \in PrimNames}

----------------------------------------------------------------------------
(* Strings *)

\* A string literal: a &'static str over the literal's UTF-8 bytes.
StrLit(bytes) == [bytes |-> bytes, len |-> Len(bytes)]

RECURSIVE CopyBytes(_, _)
\* The first n bytes of src, copied one by one into a fresh buffer.
CopyBytes(src, n) == IF n = 0 THEN <<>>
                     ELSE Append(CopyBytes(src, n - 1), src[n])

\* Faulty variant: the copy loses the last byte.
IntoShort(s) == [bytes |-> CopyBytes(s.bytes, s.len - 1), len |-> s.len - 1,
                 cap |-> s.len]

\* <&str as Into<String>>::into: allocate len bytes and copy the slice.
Into(s) == [bytes |-> CopyBytes(s.bytes, s.len), len |-> s.len, cap |-> s.len]

\* str == str, String == String: the two byte slices agree.
StrEq(a, b) == /\ a.len = b.len
               /\ \A i \in 1..a.len : a.bytes[i] = b.bytes[i]

\* UTF-8 of the literals in the source.
Utf8_string == <<115, 116, 114, 105, 110, 103>>
Utf8_name == <<110, 97, 109, 101>>
Utf8_email == <<101, 109, 97, 105, 108>>

----------------------------------------------------------------------------
(* Floats *)

\* The literal 0.0: positive zero, all fields clear.
FloatZero == [sign |-> 0, exp |-> 0, frac |-> 0]

IsNaN(T, f) == f.exp = (IF T = "f32" THEN 255 ELSE 2047) /\ f.frac # 0
IsZero(f) == f.exp = 0 /\ f.frac = 0

\* IEEE equality: NaN equals nothing, the two zeros are equal.
FloatEq(T, a, b) == /\ ~IsNaN(T, a)
                    /\ ~IsNaN(T, b)
                    /\ \/ IsZero(a) /\ IsZero(b)
                       \/ a = b

----------------------------------------------------------------------------
(* The built-in implementations, src/lib.rs *)

bool_default_test == FALSE

\* Faulty variant: the first character of "string" in place of '-'.
char_default_test_s == Utf8_string[1]
char_default_test == 45

str_default_test == StrLit(Utf8_string)

String_default_test == Into(StrLit(Utf8_string))

\* Faulty variant: a "unique number" in place of the literal.
usize_default_test_unique == Len(log)
usize_default_test == 0
isize_default_test == 0
u8_default_test == 0
i8_default_test == 0
u16_default_test == 0
i16_default_test == 0
u32_default_test == 0
i32_default_test == 0
u64_default_test == 0
i64_default_test == 0
u128_default_test == 0
\* Faulty variant: 1 in place of 0.
i128_default_test_one == u128_default_test + 1
i128_default_test == 0

\* Faulty variant: the literal 1.0.
f32_default_test_one == [sign |-> 0, exp |-> 127, frac |-> 0]
f32_default_test == FloatZero
f64_default_test == FloatZero

\* The `impl DefaultTest for` blocks that are not commented out.
ImplBlocks ==
    {Prim(n) : n \in {"bool", "char", "&str", "String", "usize", "isize",
                      "u8", "i8", "u16", "i16", "u32", "i32", "u64", "i64",
                      "u128", "i128", "f32", "f64"}}

\* Faulty variant: the commented-out impl for Option<T> where T: DefaultTest, restored.
ImplementsWithOption(T) ==
    \/ T \in ImplBlocks
    \/ T.wrap = "Option" /\ Prim(T.base) \in ImplBlocks

\* T: DefaultTest, as the compiler resolves it.
Implements(T) == T \in ImplBlocks

\* A call that ran to its end and handed back v: Self.
Returned(T, v) == [status |-> "returned", ty |-> T, v |-> v]
\* A call that unwound instead of returning.
Panicked(T) == [status |-> "panicked", ty |-> T, v |-> FALSE]
\* No impl block to dispatch to.
Unresolved(T) == [status |-> "unresolved", ty |-> T, v |-> FALSE]

\* The body of the impl block for T.
ImplBody(T) ==
    CASE T = Prim("bool") -> bool_default_test
      [] T = Prim("char") -> char_default_test
      [] T = Prim("&str") -> str_default_test
      [] T = Prim("String") -> String_default_test
      [] T = Prim("usize") -> usize_default_test
      [] T = Prim("isize") -> isize_default_test
      [] T = Prim("u8") -> u8_default_test
      [] T = Prim("i8") -> i8_default_test
      [] T = Prim("u16") -> u16_default_test
      [] T = Prim("i16") -> i16_default_test
      [] T = Prim("u32") -> u32_default_test
      [] T = Prim("i32") -> i32_default_test
      [] T = Prim("u64") -> u64_default_test
      [] T = Prim("i64") -> i64_default_test
      [] T = Prim("u128") -> u128_default_test
      [] T = Prim("i128") -> i128_default_test
      [] T = Prim("f32") -> f32_default_test
      [] T = Prim("f64") -> f64_default_test

\* Faulty variant: the char impl unwinds instead of returning.
DefaultTestPanicking(T) ==
    IF T \notin ImplBlocks THEN Unresolved(T)
    ELSE IF T = Prim("char") THEN Panicked(T)
    ELSE Returned(T, ImplBody(T))

\* <T as DefaultTest>::default_test(), by static dispatch on T: the body of
\* T's impl block runs and its value is returned.
DefaultTest(T) ==
    IF T \in ImplBlocks THEN Returned(T, ImplBody(T)) ELSE Unresolved(T)

----------------------------------------------------------------------------
(* The example, examples/hello.rs *)

Fields == {"id", "name", "email", "admin"}

\* Faulty variant: every field filled from its type's built-in placeholder.
User_default_test_builtin ==
    [id |-> usize_default_test, name |-> String_default_test,
     email |-> String_default_test, admin |-> bool_default_test]

\* Faulty variant: ids handed out from a counter.
User_default_test_unique ==
    [id |-> Len(log), name |-> Into(StrLit(Utf8_name)),
     email |-> Into(StrLit(Utf8_email)), admin |-> FALSE]

\* <User as DefaultTest>::default_test()
User_default_test ==
    [id |-> 0, name |-> Into(StrLit(Utf8_name)),
     email |-> Into(StrLit(Utf8_email)), admin |-> FALSE]

\* Equality of one field of User, by the field's type.
FieldEq(f, a, b) == IF f \in {"name", "email"} THEN StrEq(a, b) ELSE a = b

\* #[derive(PartialEq)] for User: every field equal.
UserEq(a, b) == \A f \in Fields : FieldEq(f, a[f], b[f])

\* Faulty variant: the base wins over the fields written in the literal.
StructUpdateBaseWins(over, base) == [f \in Fields |-> base[f]]

\* User { <over>, ..base }: the fields written in the literal take the
\* given values, every other field is moved out of base.
StructUpdate(over, base) ==
    [f \in Fields |-> IF f \in DOMAIN over THEN over[f] ELSE base[f]]

\* The values a test writes into the fields it overrides.
Given == [id |-> 99, name |-> Into(StrLit(<<98, 111, 98>>)),
          email |-> Into(StrLit(<<98, 64, 120>>)), admin |-> TRUE]

\* Every choice of fields to override.
Overrides == {[f \in S |-> Given[f]] : S \in SUBSET Fields}

\* main()'s `expected` literal.
MainExpected ==
    [id |-> 0, name |-> Into(StrLit(Utf8_name)),
     email |-> Into(StrLit(Utf8_email)), admin |-> TRUE]

\* main()'s `user`.
MainUser == StructUpdate([f \in {"admin"} |-> TRUE], User_default_test)

----------------------------------------------------------------------------
(* The test program *)

Init == log = <<>>

\* let x: T = DefaultTest::default_test();  compiles only where T has an impl.
Call(T) ==
    /\ Len(log) < MaxLog
    /\ Implements(T)
    /\ log' = Append(log, [op |-> "default_test", key |-> T,
                           ret |-> DefaultTest(T)])

\* let user = User { <over>, ..User::default_test() };
Build(over) ==
    /\ Len(log) < MaxLog
    /\ log' = Append(log, [op |-> "struct_update", key |-> over,
                           ret |-> Returned(Prim("User"),
                                            StructUpdate(over, User_default_test))])

\* main(): build user and expected, then assert_eq!(expected, user).
Main ==
    /\ Len(log) < MaxLog
    /\ log' = Append(log, [op |-> "main", key |-> MainExpected,
                           ret |-> IF UserEq(MainExpected, MainUser)
                                   THEN Returned(Prim("()"), MainUser)
                                   ELSE Panicked(Prim("()"))])

Next ==
    \/ \E T \in AllTypes : Call(T)
    \/ \E over \in Overrides : Build(over)
    \/ Main

Spec == Init /\ [][Next]_vars

----------------------------------------------------------------------------
(* Reading the history *)

Calls == {i \in 1..Len(log) : log[i].op = "default_test"}
Builds == {i \in 1..Len(log) : log[i].op = "struct_update"}
Mains == {i \in 1..Len(log) : log[i].op = "main"}

CallsOf(n) == {i \in Calls : log[i].key = Prim(n)}

----------------------------------------------------------------------------
(* Well-typed values *)

\* v is a value of the integer type named n (isize and usize are at least
\* 16 bits wide; the widths of 32 bits and more hold every Int explored).
IntInRange(n, v) ==
    CASE n = "u8" -> v \in 0..255
      [] n = "i8" -> v \in -128..127
      [] n \in {"u16", "usize"} -> v \in 0..65535
      [] n \in {"i16", "isize"} -> v \in -32768..32767
      [] n \in {"u32", "u64", "u128"} -> v >= 0
      [] OTHER -> v \in Int

\* v is a value of the built-in type named n.
WellTyped(n, v) ==
    CASE n = "bool" -> v \in BOOLEAN
      [] n = "char" -> v \in 0..1114111 /\ v \notin 55296..57343
      [] n = "&str" -> v.len = Len(v.bytes)
      [] n = "String" -> v.len = Len(v.bytes) /\ v.len <= v.cap
      [] n \in IntNames -> IntInRange(n, v)
      [] n \in FloatNames ->
            /\ v.sign \in {0, 1}
            /\ v.exp \in 0..(IF n = "f32" THEN 255 ELSE 2047)
            /\ v.frac >= 0
      [] OTHER -> FALSE

\* Value equality of two values of the built-in type named n.
ValEq(n, a, b) ==
    CASE n \in StringNames -> StrEq(a, b)
      [] n \in FloatNames -> FloatEq(n, a, b)
      [] OTHER -> a = b

----------------------------------------------------------------------------
(* Claims *)

\* C1: bool::default_test() returns false, char::default_test() returns
\* '-' (U+002D), and <&str>::default_test() and String::default_test()
\* return the text "string".
C1_BoolCharString ==
    /\ \A i \in CallsOf("bool") :
          log[i].ret.status = "returned" /\ log[i].ret.v = FALSE
    /\ \A i \in CallsOf("char") :
          log[i].ret.status = "returned" /\ log[i].ret.v = 45
    /\ \A i \in CallsOf("&str") \cup CallsOf("String") :
          /\ log[i].ret.status = "returned"
          /\ StrEq(log[i].ret.v, StrLit(<<115, 116, 114, 105, 110, 103>>))

C1_Witness ==
    /\ CallsOf("bool") # {}
    /\ CallsOf("char") # {}
    /\ CallsOf("String") # {}

\* C2: for each of the twelve integer types default_test() returns 0.
C2_IntegersZero ==
    \A n \in {"u8", "i8", "u16", "i16", "u32", "i32", "u64", "i64", "u128",
              "i128", "usize", "isize"} :
        \A i \in CallsOf(n) :
            log[i].ret.status = "returned" /\ log[i].ret.v = 0

C2_Witness ==
    /\ CallsOf("u8") # {}
    /\ CallsOf("i128") # {}
    /\ CallsOf("isize") # {}

\* C3: for f32 and f64 default_test() returns 0.0.
C3_FloatsZero ==
    \A n \in {"f32", "f64"} :
        \A i \in CallsOf(n) :
            /\ log[i].ret.status = "returned"
            /\ log[i].ret.v.sign = 0
            /\ FloatEq(n, log[i].ret.v, [sign |-> 0, exp |-> 0, frac |-> 0])

C3_Witness == CallsOf("f32") # {} /\ CallsOf("f64") # {}

\* C4: in any history, any two default_test() calls for the same built-in
\* type returned equal values, whatever was called in between.
C4_Deterministic ==
    \A i, j \in Calls :
        log[i].key = log[j].key =>
            ValEq(log[i].key.base, log[i].ret.v, log[j].ret.v)

C4_Witness ==
    /\ Len(log) = 3
    /\ log[1].op = "default_test"
    /\ log[3].op = "default_test"
    /\ log[1].key = Prim("usize")
    /\ log[3].key = Prim("usize")
    /\ log[2].op = "default_test"
    /\ log[2].key = Prim("String")

\* C5: User { admin: true, ..User::default_test() } equals
\* {id: 0, name: "name", email: "email", admin: true}; main()'s assertion
\* passes.
C5_AdminOverride ==
    /\ \A i \in Builds :
          (DOMAIN log[i].key = {"admin"} /\ log[i].key["admin"] = TRUE) =>
              UserEq(log[i].ret.v,
                     [id |-> 0, name |-> StrLit(<<110, 97, 109, 101>>),
                      email |-> StrLit(<<101, 109, 97, 105, 108>>),
                      admin |-> TRUE])
    /\ \A i \in Mains :
          /\ log[i].ret.status = "returned"
          /\ UserEq(log[i].ret.v,
                    [id |-> 0, name |-> StrLit(<<110, 97, 109, 101>>),
                     email |-> StrLit(<<101, 109, 97, 105, 108>>),
                     admin |-> TRUE])

C5_Witness ==
    /\ Mains # {}
    /\ \E i \in Builds : DOMAIN log[i].key = {"admin"}

\* C6: a User built by overriding any subset of fields has the given value
\* in every overridden field and User::default_test()'s value in every
\* other field.
C6_OverrideFrame ==
    \A i \in Builds :
        \A f \in Fields :
            IF f \in DOMAIN log[i].key
            THEN FieldEq(f, log[i].ret.v[f], log[i].key[f])
            ELSE FieldEq(f, log[i].ret.v[f], User_default_test[f])

C6_Witness ==
    \E i, j \in Builds :
        /\ DOMAIN log[i].key = {"id"}
        /\ log[i].ret.v["id"] = 99
        /\ DOMAIN log[j].key = {"name", "admin"}

\* C7: two applications of placeholder-then-override with the same override
\* give equal Users, whatever was called or built in between.
C7_OverrideIdempotent ==
    \A i, j \in Builds :
        log[i].key = log[j].key => UserEq(log[i].ret.v, log[j].ret.v)

C7_Witness ==
    /\ Len(log) = 3
    /\ log[1].op = "struct_update"
    /\ log[3].op = "struct_update"
    /\ DOMAIN log[1].key = {"admin"}
    /\ log[1].key = log[3].key
    /\ log[2].op = "default_test"

\* C8: every default_test() call for a built-in type ends by returning a
\* value of the implementing type; none panics or is left without a result.
C8_TotalInfallible ==
    \A i \in Calls :
        /\ log[i].ret.status = "returned"
        /\ log[i].ret.ty = log[i].key
        /\ WellTyped(log[i].key.base, log[i].ret.v)

C8_Witness ==
    /\ CallsOf("char") # {}
    /\ CallsOf("String") # {}
    /\ CallsOf("f64") # {}

\* C9: the types with a built-in placeholder are exactly bool, char, &str,
\* String, the twelve integer types and the two float types: while the
\* program can go on, a call is possible for exactly these; no Option or
\* Result type has an implementation, and no call was made for one.
C9_ExactlyBuiltins ==
    LET Claimed == {"bool", "char", "&str", "String", "u8", "i8", "u16",
                    "i16", "u32", "i32", "u64", "i64", "u128", "i128",
                    "usize", "isize", "f32", "f64"}
    IN /\ \A T \in AllTypes :
             Len(log) < MaxLog =>
                 (ENABLED Call(T) <=> (T.wrap = "none" /\ T.base \in Claimed))
       /\ \A T \in AllTypes :
             T.wrap \in {"Option", "Result"} => ~Implements(T)
       /\ \A i \in Calls :
             /\ log[i].key.wrap = "none"
             /\ log[i].key.base \in Claimed
             /\ log[i].ret.status = "returned"

C9_Witness ==
    /\ Len(log) = 2
    /\ Calls = {1, 2}
    /\ ~ENABLED Call(OptionOf("bool"))
    /\ ~ENABLED Call(ResultOf("String"))
    /\ ENABLED Call(Prim("bool"))

\* C10: String::default_test() holds the same text as <&str>::default_test():
\* the &str placeholder converted to an owned String equals the String
\* placeholder.
C10_StringsAgree ==
    \A i \in CallsOf("String") :
        \A j \in CallsOf("&str") :
            /\ StrEq(log[i].ret.v, log[j].ret.v)
            /\ StrEq(Into(log[j].ret.v), log[i].ret.v)
            /\ Into(log[j].ret.v) = log[i].ret.v

C10_Witness == CallsOf("String") # {} /\ CallsOf("&str") # {}

====
